---------------------------- MODULE Spec2Model ----------------------------
(***************************************************************************)
(* logboom: LoggerMachine, ConsoleLogger and FileLogger (source/logboom.ts) *)
(* and the example programs that drive them.                               *)
(*                                                                         *)
(* A JavaScript string is modelled as a sequence of tokens.  A token is a  *)
(* single character where the code looks at characters (level labels, the  *)
(* level tag), one word where it does not (message bodies), "LF"/"CR" for   *)
(* the line-break characters and "ESC[..m" for one ANSI escape sequence.    *)
(***************************************************************************)
EXTENDS Integers, Sequences, FiniteSets, TLC

\* ------------------------------------------------------------------ bounds
\* Calls an arbitrary client makes on one logger.
MaxCalls == 2
\* Milliseconds the wall clock may advance during a run.
MaxClock == 1

\* ------------------------------------------------------- string machinery
Lower == <<"a","b","c","d","e","f","g","h","i","j","k","l","m",
           "n","o","p","q","r","s","t","u","v","w","x","y","z">>
Upper == <<"A","B","C","D","E","F","G","H","I","J","K","L","M",
           "N","O","P","Q","R","S","T","U","V","W","X","Y","Z">>

\* Index of the first element of seq equal to x, -1 when there is none
\* (Array.prototype.indexOf).
indexOf(seq, x) ==
    IF \E i \in 1..Len(seq) : seq[i] = x
    THEN (CHOOSE i \in 1..Len(seq) :
             seq[i] = x /\ \A j \in 1..(i-1) : seq[j] # x) - 1
    ELSE -1

toLowerCase(s) ==
    [i \in 1..Len(s) |->
        IF indexOf(Upper, s[i]) >= 0 THEN Lower[indexOf(Upper, s[i]) + 1] ELSE s[i]]

toUpperCase(s) ==
    [i \in 1..Len(s) |->
        IF indexOf(Lower, s[i]) >= 0 THEN Upper[indexOf(Lower, s[i]) + 1] ELSE s[i]]

RECURSIVE Flatten(_)
Flatten(chunks) ==
    IF chunks = <<>> THEN <<>> ELSE Head(chunks) \o Flatten(Tail(chunks))

IsPrefix(s, t) == Len(s) <= Len(t) /\ SubSeq(t, 1, Len(s)) = s
IsSuffix(s, t) == Len(s) <= Len(t) /\ SubSeq(t, Len(t) - Len(s) + 1, Len(t)) = s

\* ------------------------------------------------------------ ANSI colour
\* chalk's foreground colours (SGR codes); every one is closed by ESC[39m.
ColorOpen == [red |-> "ESC[31m", magenta |-> "ESC[35m", cyan |-> "ESC[36m",
              green |-> "ESC[32m", blue |-> "ESC[34m", gray |-> "ESC[90m",
              yellow |-> "ESC[33m"]
ColorClose == "ESC[39m"
\* Escape sequences a caller's own text may carry (bold on / bold off).
AnsiCodes == {ColorOpen[c] : c \in DOMAIN ColorOpen} \cup {ColorClose, "ESC[1m", "ESC[22m"}

\* strip-ansi: removes every ANSI escape sequence, keeps everything else.
stripAnsi(s) == SelectSeq(s, LAMBDA t : t \notin AnsiCodes)


\* --------------------------------------------------------------- the state
VARIABLES
    lg,          \* "none": no logger yet; "ready": constructed; "threw": the constructor threw
    opts,        \* the options object the constructor was called with
    threshold,   \* LoggerMachine.threshold
    eol,         \* FileLogger.eol
    colorOn,     \* whether chalk emits colour codes in this environment
    clock,       \* the wall clock read by new Date()
    stdout,      \* lines written by console.log
    stderr,      \* lines written by console.error
    opened,      \* whether the WriteStream has opened its file
    pending,     \* chunks handed to stream.write and still buffered in the stream
    file,        \* the log file on disk: the content found there, then each chunk written
    calls        \* the logging calls that have returned, in order

vars == <<lg, opts, threshold, eol, colorOn, clock, stdout, stderr, opened, pending, file, calls>>

\* Bytes of the log file.
FileContent == Flatten(file)

\* ----------------------------------------------------------- LoggerMachine
Methods == {"error", "warn", "info", "verbose", "debug", "silly"}

\* The string literals "error" .. "silly", character by character.
Lit == [error   |-> <<"e","r","r","o","r">>,
        warn    |-> <<"w","a","r","n">>,
        info    |-> <<"i","n","f","o">>,
        verbose |-> <<"v","e","r","b","o","s","e">>,
        debug   |-> <<"d","e","b","u","g">>,
        silly   |-> <<"s","i","l","l","y">>]

levels == <<Lit.error, Lit.warn, Lit.info, Lit.verbose, Lit.debug, Lit.silly>>

RECURSIVE longestFrom(_, _)
longestFrom(arr, longest) ==
    IF arr = <<>> THEN longest
    ELSE longestFrom(Tail(arr), IF Len(Head(arr)) > Len(longest) THEN Head(arr) ELSE longest)

getLongestValue(arr) == longestFrom(arr, <<>>)

\* Variant: the loop stops one character early.
RECURSIVE rpad_short(_, _)
rpad_short(subject, length) ==
    IF Len(subject) + 1 < length THEN rpad_short(Append(subject, " "), length) ELSE subject

RECURSIVE rpad(_, _)
rpad(subject, length) ==
    IF Len(subject) < length THEN rpad(Append(subject, " "), length) ELSE subject

getLevelNumber(level) == indexOf(levels, toLowerCase(level))

timestamp == <<"[", ToString(clock), "] ">>

levelTag(level) ==
    rpad(<<"(">> \o toUpperCase(level) \o <<")", " ">>, 3 + Len(getLongestValue(levels)))

\* error.stack in a template concatenation: the text, or "undefined".
stackText(err) == IF err.hasStack THEN err.stack ELSE <<"undefined">>

\* ----------------------------------------------------------- ConsoleLogger
colors == <<"red", "magenta", "cyan", "green", "blue", "gray">>

\* chalk[color](s): s between the colour's open and close codes; a close code
\* inside s reopens the colour and the colour is closed around every line
\* break.  Without colour support chalk returns s unchanged.
chalkToken(open, t) ==
    IF t = ColorClose THEN <<open>>
    ELSE IF t = "LF" THEN <<ColorClose, "LF", open>>
    ELSE <<t>>

chalk(color, s) ==
    IF ~colorOn \/ s = <<>> THEN s
    ELSE <<ColorOpen[color]>>
         \o Flatten([i \in 1..Len(s) |-> chalkToken(ColorOpen[color], s[i])])
         \o <<ColorClose>>

formatError(err) ==
    chalk("yellow", timestamp) \o chalk("red", levelTag(Lit.error) \o stackText(err))

formatMessage(level, message) ==
    LET color == colors[getLevelNumber(level) + 1]
    IN  chalk("yellow", timestamp) \o chalk(color, levelTag(level) \o message)

\* Variant: console.log in place of console.error.
Console_logErrorMessage_toStdout(errorMessage) ==
    /\ stdout' = Append(stdout, errorMessage)
    /\ stderr' = stderr

Console_logErrorMessage(errorMessage) ==
    /\ stderr' = Append(stderr, errorMessage)
    /\ stdout' = stdout

Console_logMessage(message) ==
    /\ stdout' = Append(stdout, message)
    /\ stderr' = stderr

\* -------------------------------------------------------------- FileLogger
\* stream.write(chunk): the chunk joins the stream's buffer; the stream
\* writes it to the file later, from the event loop.
streamWrite(chunk) ==
    /\ pending' = Append(pending, chunk)
    /\ UNCHANGED <<opened, file>>

File_logErrorMessage(errorMessage) ==
    /\ Console_logErrorMessage(errorMessage)
    /\ streamWrite(stripAnsi(errorMessage) \o eol)

\* Variant: the message reaches the file with its colour codes.
File_logMessage_raw(message) ==
    /\ Console_logMessage(message)
    /\ streamWrite(message \o eol)

\* Variant: the line ending before the text, as in the readme's listing.
File_logMessage_eolFirst(message) ==
    /\ Console_logMessage(message)
    /\ streamWrite(eol \o stripAnsi(message))

File_logMessage(message) ==
    /\ Console_logMessage(message)
    /\ streamWrite(stripAnsi(message) \o eol)

\* Dynamic dispatch on the class that was instantiated.
\* Variant: the FileLogger override is not reached.
logErrorMessage_consoleOnly(errorMessage) ==
    Console_logErrorMessage(errorMessage) /\ UNCHANGED <<opened, pending, file>>

logErrorMessage(errorMessage) ==
    IF opts.kind = "FileLogger"
    THEN File_logErrorMessage(errorMessage)
    ELSE Console_logErrorMessage(errorMessage) /\ UNCHANGED <<opened, pending, file>>

logMessage(message) ==
    IF opts.kind = "FileLogger"
    THEN File_logMessage(message)
    ELSE Console_logMessage(message) /\ UNCHANGED <<opened, pending, file>>

\* Variant: strict comparison with the threshold.
reportMessage_strict(level, message) ==
    IF getLevelNumber(level) < threshold
    THEN logMessage(formatMessage(level, message))
    ELSE UNCHANGED <<stdout, stderr, opened, pending, file>>

reportMessage(level, message) ==
    IF getLevelNumber(level) <= threshold
    THEN logMessage(formatMessage(level, message))
    ELSE UNCHANGED <<stdout, stderr, opened, pending, file>>

\* Variant: errors triaged against the threshold like messages.
error_triaged(err) ==
    IF getLevelNumber(Lit.error) < threshold
    THEN logErrorMessage(formatError(err))
    ELSE UNCHANGED <<stdout, stderr, opened, pending, file>>

error(err) == logErrorMessage(formatError(err))

\* warn(message) .. silly(message): reportMessage with the method's own label.
leveled(m, message) == reportMessage(Lit[m], message)

\* ------------------------------------------------------------- the callers
\* One logging call: the method, its message (an Error's message), and for
\* an Error whether it carries stack text and that text.
Call(m, message, hasStack, stack) ==
    [m |-> m, message |-> message, hasStack |-> hasStack, stack |-> stack]

\* Constructor options: the class instantiated, the level key (absent in
\* the console example, which passes loglevel instead), the optional eol.
Options(kind, hasLevel, level, hasEol, eolArg) ==
    [kind |-> kind, hasLevel |-> hasLevel, level |-> level, hasEol |-> hasEol, eol |-> eolArg]

NoOptions == Options("none", FALSE, <<>>, FALSE, <<>>)

LevelArgs == {Lit[m] : m \in Methods} \cup {<<"S","i","l","l","y">>, <<"l","o","u","d">>}

OptionArgs ==
    {Options("ConsoleLogger", TRUE, l, FALSE, <<>>) : l \in {Lit.info, <<"l","o","u","d">>}}
    \cup {Options("ConsoleLogger", FALSE, <<>>, FALSE, <<>>)}
    \cup {Options("FileLogger", TRUE, l, FALSE, <<>>) : l \in LevelArgs}
    \cup {Options("FileLogger", TRUE, Lit.info, TRUE, <<"CR", "LF">>)}

ErrorArgs ==
    {Call("error", <<"boom">>, TRUE, <<"Error: boom", "LF", "at main">>),
     Call("error", <<"boom">>, FALSE, <<>>)}

\* A message that carries its own styling and a line break.
MessageArgs == {<<"ESC[1m", "go", "LF", "on", "ESC[22m">>}

\* source/example.ts
ExampleOptions == Options("FileLogger", TRUE, Lit.silly, FALSE, <<>>)

ExampleScript ==
    <<Call("error", <<"an error occurred">>, TRUE,
           <<"Error: an error occurred", "LF", "at example">>),
      Call("warn", <<"heed my warning!">>, FALSE, <<>>),
      Call("info", <<"something informative">>, FALSE, <<>>),
      Call("verbose", <<"explaining what's happening verbosely">>, FALSE, <<>>),
      Call("debug", <<"information to help diagnose bugs">>, FALSE, <<>>),
      Call("silly", <<"obscenely fine-grained details">>, FALSE, <<>>)>>

\* The call c as recorded in calls: c and the time it was made.
Returned(c) ==
    [m |-> c.m, message |-> c.message, hasStack |-> c.hasStack, stack |-> c.stack, t |-> clock]

Made(r) == Call(r.m, r.message, r.hasStack, r.stack)

\* What an earlier session left in the log file.
Preexisting == <<"old", "LF">>

\* ------------------------------------------------------------- the actions
Init ==
    /\ lg = "none"
    /\ opts = NoOptions
    /\ threshold = 0
    /\ eol = <<>>
    /\ colorOn \in BOOLEAN
    /\ clock = 0
    /\ stdout = <<>>
    /\ stderr = <<>>
    /\ opened = FALSE
    /\ pending = <<>>
    /\ file = <<Preexisting>>
    /\ calls = <<>>

\* new ConsoleLogger(o) / new FileLogger(o).  LoggerMachine's constructor
\* runs first; level.toLowerCase() throws a TypeError when o has no level.
Construct(o) ==
    /\ lg = "none"
    /\ opts' = o
    /\ IF ~o.hasLevel
       THEN /\ lg' = "threw"
            /\ UNCHANGED <<threshold, eol, pending>>
       ELSE /\ lg' = "ready"
            /\ threshold' = getLevelNumber(o.level)
            /\ IF o.kind = "FileLogger"
               THEN /\ eol' = IF o.hasEol THEN o.eol ELSE <<"LF">>
                    /\ pending' = Append(pending, eol')
               ELSE UNCHANGED <<eol, pending>>
    /\ UNCHANGED <<colorOn, clock, stdout, stderr, opened, file, calls>>

CallError(e) ==
    /\ lg = "ready"
    /\ Len(calls) < MaxCalls
    /\ error(e)
    /\ calls' = Append(calls, Returned(e))
    /\ UNCHANGED <<lg, opts, threshold, eol, colorOn, clock>>

CallLeveled(m, message) ==
    /\ lg = "ready"
    /\ Len(calls) < MaxCalls
    /\ leveled(m, message)
    /\ calls' = Append(calls, Returned(Call(m, message, FALSE, <<>>)))
    /\ UNCHANGED <<lg, opts, threshold, eol, colorOn, clock>>

\* The next statement of source/example.ts, lines 6 to 11.
ExampleStep ==
    /\ lg = "ready"
    /\ opts = ExampleOptions
    /\ Len(calls) < Len(ExampleScript)
    /\ \A i \in 1..Len(calls) : Made(calls[i]) = ExampleScript[i]
    /\ LET c == ExampleScript[Len(calls) + 1]
       IN  /\ IF c.m = "error" THEN error(c) ELSE leveled(c.m, c.message)
           /\ calls' = Append(calls, Returned(c))
    /\ UNCHANGED <<lg, opts, threshold, eol, colorOn, clock>>

\* The WriteStream opens its file, in append mode: what is there stays.
\* Variant: flags "w", which empties the file on open.
Open_truncate ==
    /\ lg = "ready"
    /\ opts.kind = "FileLogger"
    /\ ~opened
    /\ opened' = TRUE
    /\ file' = << <<>> >>
    /\ UNCHANGED <<lg, opts, threshold, eol, colorOn, clock, stdout, stderr, pending, calls>>

Open ==
    /\ lg = "ready"
    /\ opts.kind = "FileLogger"
    /\ ~opened
    /\ opened' = TRUE
    /\ UNCHANGED <<lg, opts, threshold, eol, colorOn, clock, stdout, stderr, pending, file, calls>>

\* The open stream writes its oldest buffered chunk at the end of the file.
Flush ==
    /\ opened
    /\ pending # <<>>
    /\ file' = Append(file, Head(pending))
    /\ pending' = Tail(pending)
    /\ UNCHANGED <<lg, opts, threshold, eol, colorOn, clock, stdout, stderr, opened, calls>>

\* Time passes.
Tick ==
    /\ clock < MaxClock
    /\ clock' = clock + 1
    /\ UNCHANGED <<lg, opts, threshold, eol, colorOn, stdout, stderr, opened, pending, file, calls>>

Next ==
    \/ \E o \in OptionArgs : Construct(o)
    \/ \E e \in ErrorArgs : CallError(e)
    \/ \E m \in Methods \ {"error"}, message \in MessageArgs : CallLeveled(m, message)
    \/ ExampleStep
    \/ Open
    \/ Flush
    \/ Tick

Spec == Init /\ [][Next]_vars

\* ------------------------------------------------- what the claims refer to
\* The severity scale as the specification gives it.
Rank(m) ==
    CASE m = "error" -> 0 [] m = "warn" -> 1 [] m = "info" -> 2
      [] m = "verbose" -> 3 [] m = "debug" -> 4 [] m = "silly" -> 5

\* The rank a level label stands for, compared case-insensitively; -1 for a
\* label that names no severity.
LabelRank(label) ==
    CASE label = Lit.error -> 0 [] label = Lit.warn -> 1 [] label = Lit.info -> 2
      [] label = Lit.verbose -> 3 [] label = Lit.debug -> 4 [] label = Lit.silly -> 5
      [] label = <<"S","i","l","l","y">> -> 5
      [] OTHER -> -1

\* The threshold the options ask for.
T == IF opts.hasLevel THEN LabelRank(opts.level) ELSE -1

IsFileLogger == lg = "ready" /\ opts.kind = "FileLogger"

\* The level tags written out: ten characters each.
ExpectedTag ==
    [error   |-> <<"(","E","R","R","O","R",")"," "," "," ">>,
     warn    |-> <<"(","W","A","R","N",")"," "," "," "," ">>,
     info    |-> <<"(","I","N","F","O",")"," "," "," "," ">>,
     verbose |-> <<"(","V","E","R","B","O","S","E",")"," ">>,
     debug   |-> <<"(","D","E","B","U","G",")"," "," "," ">>,
     silly   |-> <<"(","S","I","L","L","Y",")"," "," "," ">>]

\* s without its escape sequences.
IsText(t) == t \notin AnsiCodes
Plain(s) == SelectSeq(s, IsText)

HasEscape(s) == \E i \in 1..Len(s) : s[i] \in AnsiCodes

\* The calls that emit as the code triages them: error always, a leveled
\* call when its rank is within the threshold.
Emitted == LET t == T IN SelectSeq(calls, LAMBDA r : r.m = "error" \/ Rank(r.m) <= t)
ConsoleCountsAgree ==
    LET e == Emitted
        n == Cardinality({i \in 1..Len(e) : e[i].m = "error"})
    IN  /\ Len(stderr) = n
        /\ Len(stdout) = Len(e) - n
\* The console line of the k-th emitting call.
ConsoleLine(k) ==
    LET e == Emitted
        n == Cardinality({i \in 1..k : e[i].m = "error"})
    IN  IF e[k].m = "error" THEN stderr[n] ELSE stdout[k - n]

\* Layout of a plain line: "[", time, "] ", ten tag characters, the body.
TimeOf(line) == line[2]
TagOf(line) == SubSeq(line, 4, 13)
BodyOf(line) == SubSeq(line, 14, Len(line))

\* What the logger has appended to the file, and what it has passed to the
\* stream in all (written or still buffered).
Appended == Flatten(Tail(file))
PassedToStream == Appended \o Flatten(pending)
EntriesInFile == IF Len(file) > 2 THEN Len(file) - 2 ELSE 0

\* ------------------------------------------------------------------ claims
\* C1: with a threshold T among the six severities, one call to a leveled
\* method S writes exactly one line (stdout, and one chunk to the file
\* stream of a FileLogger) when rank(S) <= rank(T), and writes nothing
\* anywhere when rank(S) > rank(T).
C1_Step ==
    \A m \in Methods \ {"error"} :
        (/\ lg = "ready"
         /\ T \in 0..5
         /\ Len(calls') = Len(calls) + 1
         /\ calls'[Len(calls')].m = m)
        => /\ stderr' = stderr
           /\ IF Rank(m) <= T
              THEN /\ Len(stdout') = Len(stdout) + 1
                   /\ SubSeq(stdout', 1, Len(stdout)) = stdout
                   /\ IF opts.kind = "FileLogger"
                      THEN Len(pending') = Len(pending) + 1
                      ELSE pending' = pending
              ELSE /\ stdout' = stdout
                   /\ pending' = pending
                   /\ file' = file
C1_Triage == [][C1_Step]_vars

C1_Witness ==
    /\ lg = "ready" /\ T = 1 /\ Len(calls) = 2
    /\ calls[1].m = "warn" /\ calls[2].m = "info"
    /\ Len(stdout) = 1

\* C2: one call to error(err) writes exactly one entry (stderr, and one
\* chunk to the file stream of a FileLogger) whatever the threshold is.
C2_Step ==
    (/\ lg = "ready"
     /\ Len(calls') = Len(calls) + 1
     /\ calls'[Len(calls')].m = "error")
    => /\ Len(stderr') = Len(stderr) + 1
       /\ SubSeq(stderr', 1, Len(stderr)) = stderr
       /\ stdout' = stdout
       /\ IF opts.kind = "FileLogger"
          THEN Len(pending') = Len(pending) + 1
          ELSE pending' = pending
C2_ErrorAlwaysEmits == [][C2_Step]_vars

C2_Witness ==
    /\ lg = "ready" /\ T = 0 /\ threshold = 0
    /\ Len(calls) = 1 /\ calls[1].m = "error"
    /\ Len(stderr) = 1

\* C3: the log file only grows (its earlier content stays a prefix of its
\* later content) and its entries are those of the emitting calls, in call
\* order: the k-th entry carries the time and the level tag of the k-th
\* emitting call and, for a leveled call, its message.
IsEntryOf(chunk, r) ==
    /\ Len(chunk) >= 13 + Len(eol)
    /\ TimeOf(chunk) = ToString(r.t)
    /\ TagOf(chunk) = ExpectedTag[r.m]
    /\ r.m # "error" => BodyOf(chunk) = Plain(r.message) \o eol

InCallOrder ==
    IsFileLogger =>
        /\ EntriesInFile <= Len(Emitted)
        /\ \A k \in 1..EntriesInFile : IsEntryOf(file[k + 2], Emitted[k])

C3_AppendOnlyInCallOrder ==
    [][IsPrefix(FileContent, FileContent') /\ InCallOrder']_vars

\* The six calls of example.ts, threshold silly: six entries in the file.
C3_Witness ==
    /\ IsFileLogger /\ T = 5
    /\ Len(calls) = 6
    /\ \A i \in 1..6 : Made(calls[i]) = ExampleScript[i]
    /\ EntriesInFile = 6
    /\ IsPrefix(Preexisting, FileContent)

\* C4: what a FileLogger passes to its file for a call is the console line
\* of the same call with the colour codes removed, followed by eol; the
\* file text holds no escape sequence.
RECURSIVE PlainConsole(_)
PlainConsole(k) ==
    IF k = 0 THEN <<>>
    ELSE PlainConsole(k - 1) \o Plain(ConsoleLine(k)) \o eol

C4_FileIsPlainConsole ==
    IsFileLogger =>
        /\ ConsoleCountsAgree
        /\ PassedToStream = eol \o PlainConsole(Len(Emitted))
        /\ ~HasEscape(PassedToStream)

C4_Witness ==
    /\ IsFileLogger /\ colorOn
    /\ Len(calls) = 2 /\ calls[1].m = "warn" /\ calls[2].m = "error"
    /\ Len(stdout) = 1 /\ Len(stderr) = 1
    /\ HasEscape(stdout[1]) /\ HasEscape(stderr[1])
    /\ EntriesInFile = 2
    /\ pending = <<>>

\* C5: a level label that names no severity makes the constructor throw, so
\* no logger with such a threshold exists and no call on it returns.
C5_InvalidLevelRejected ==
    (lg # "none" /\ T = -1) => (lg = "threw" /\ calls = <<>>)

\* C6 as stated: once an emitting call on a FileLogger has returned, its
\* entry is in the file and nothing is left buffered in the stream.
C6_WrittenOnReturn ==
    (IsFileLogger /\ Len(Emitted) > 0) =>
        /\ pending = <<>>
        /\ EntriesInFile = Len(Emitted)

\* C6 amended: once an emitting call on a FileLogger has returned, its entry
\* is on the console and has been passed to the file stream: it is the last
\* chunk buffered in the stream or, when nothing is buffered, the last chunk
\* written to the file.
C6_HandedToStream ==
    (IsFileLogger /\ Len(Emitted) > 0) =>
        /\ ConsoleCountsAgree
        /\ LET chunk == Plain(ConsoleLine(Len(Emitted))) \o eol
           IN  IF pending # <<>>
               THEN pending[Len(pending)] = chunk
               ELSE Len(file) > 2 /\ file[Len(file)] = chunk

\* An entry still buffered after its call returned, then one written.
C6_Witness ==
    /\ IsFileLogger /\ Len(Emitted) = 2
    /\ Len(pending) = 1 /\ EntriesInFile = 1

\* C7: error(err) with an err that has no stack text writes the error's
\* message as the body of the entry; with stack text, the stack text.
C7_BodyIsStackOrMessage ==
    (lg = "ready" /\ ConsoleCountsAgree) =>
        \A k \in 1..Len(Emitted) :
            Emitted[k].m = "error" =>
                BodyOf(Plain(ConsoleLine(k)))
                    = IF Emitted[k].hasStack THEN Emitted[k].stack ELSE Emitted[k].message

\* C8: the level tag of each severity is ten characters: the upper-cased
\* label in parentheses, a space and padding (levelTag reads no state, so it
\* is evaluated before the logger exists); every emitted line carries the
\* tag of its call right after the timestamp.
C8_TagWidth ==
    /\ lg = "none" =>
          \A m \in Methods :
              Len(levelTag(Lit[m])) = 10 /\ levelTag(Lit[m]) = ExpectedTag[m]
    /\ lg = "ready" =>
          /\ ConsoleCountsAgree
          /\ \A k \in 1..Len(Emitted) :
                TagOf(Plain(ConsoleLine(k))) = ExpectedTag[Emitted[k].m]

C8_Witness ==
    /\ lg = "ready" /\ Len(calls) = 2
    /\ calls[1].m = "verbose" /\ calls[2].m = "warn"
    /\ Len(stdout) = 2
    /\ TagOf(Plain(stdout[2])) = <<"(","W","A","R","N",")"," "," "," "," ">>

\* Routing: error entries on stderr only, leveled entries on stdout only.
Routing ==
    /\ ConsoleCountsAgree
    /\ \A i \in 1..Len(stderr) : TagOf(Plain(stderr[i])) = ExpectedTag.error
    /\ \A i \in 1..Len(stdout) : TagOf(Plain(stdout[i])) # ExpectedTag.error

\* C9 as stated: routing, and after any calls on a FileLogger the file holds
\* as many entries as the console has lines.
C9_FileCountEqualsConsole ==
    lg = "ready" =>
        /\ Routing
        /\ opts.kind = "FileLogger" => EntriesInFile = Len(stdout) + Len(stderr)

\* C9 amended: routing, and for a FileLogger the entries written to the file
\* plus those still buffered in the stream are as many as the console lines;
\* the file never holds more entries than the console has lines.
C9_RoutingAndFanOut ==
    lg = "ready" =>
        /\ Routing
        /\ opts.kind = "FileLogger" =>
              /\ Len(file) + Len(pending) = 2 + Len(stdout) + Len(stderr)
              /\ EntriesInFile <= Len(stdout) + Len(stderr)

C9_Witness ==
    /\ IsFileLogger
    /\ Len(stdout) = 1 /\ Len(stderr) = 1
    /\ EntriesInFile = 1 /\ Len(pending) = 1

=============================================================================
